---- MODULE Spec2Model ----
(***************************************************************************)
(* Model of google-cloud-datastore-stubs/setup.py: one run of the          *)
(* descriptor under setuptools, from the evaluation of the arguments of    *)
(* setup(...) (the README read on line 7, find_packages() on line 10, the  *)
(* package_data literal on lines 11-14) to the build_py step that copies   *)
(* modules and data files into the build directory, and the install step   *)
(* that copies the build directory to the installed location.              *)
(*                                                                         *)
(* The inputs of a run are the working directory, the directories that     *)
(* hold a README.md, the file-system layout under the working directory,   *)
(* the version literal of the release and whether the installed setuptools *)
(* rejects a version it cannot parse (setuptools >= 66 raises              *)
(* InvalidVersion when the Distribution is created, older ones only warn;  *)
(* the descriptor pins neither).                                           *)
(***************************************************************************)
EXTENDS Integers, Sequences, FiniteSets, TLC

VARIABLES
    cwd,              \* working directory of the process, a path
    readmeDirs,       \* the directories that contain a README.md
    tree,             \* files under cwd: path relative to cwd |-> content
    version,          \* the version= literal of the descriptor
    strictVersion,    \* TRUE iff the toolchain raises on an unparsable version
    pc,               \* position of the run
    long_description, \* value of the long_description= argument
    packages,         \* value of the packages= argument (set of package dirs)
    fsOps,            \* file-system accesses made so far, in order
    error,            \* the exception that ended the run, "" if none
    exitCode,         \* exit status, -1 while running
    artifact,         \* build directory: path |-> content
    installed         \* installed location: path |-> content

vars == <<cwd, readmeDirs, tree, version, strictVersion, pc, long_description,
          packages, fsOps, error, exitCode, artifact, installed>>

inputs == <<cwd, readmeDirs, tree, version, strictVersion>>

-----------------------------------------------------------------------------
(* Bounds and universes *)

\* number of distinct non-empty stub texts a .pyi file may hold
MaxText == 2

Last(s) == s[Len(s)]
Front(s) == SubSeq(s, 1, Len(s) - 1)
IsPrefix(p, s) == Len(p) <= Len(s) /\ SubSeq(s, 1, Len(p)) = p
Range(s) == {s[i] : i \in DOMAIN s}

\* the directory that holds setup.py, and another directory a build may be
\* started from
DescriptorDir == <<"repo", "google-cloud-datastore-stubs">>
OtherDir == <<"tmp", "work">>
WorkDirs == {DescriptorDir, OtherDir}

\* directories that may exist under the working directory
PkgDirs ==
    { <<"google">>, <<"google", "cloud">>, <<"google", "cloud", "datastore">>,
      <<"google-cloud-datastore-stubs">>,
      <<"google-cloud-datastore-stubs", "sub">>,
      <<"v1.x">> }

\* files that may exist under the working directory
CandidateFiles ==
    { <<"google", "__init__.py">>,
      <<"google", "cloud", "__init__.py">>,
      <<"google", "cloud", "datastore", "__init__.py">>,
      <<"google", "cloud", "datastore", "py.typed">>,
      <<"google", "cloud", "datastore", "client.pyi">>,
      <<"google-cloud-datastore-stubs", "__init__.py">>,
      <<"google-cloud-datastore-stubs", "py.typed">>,
      <<"google-cloud-datastore-stubs", "client.pyi">>,
      <<"google-cloud-datastore-stubs", "sub", "__init__.py">>,
      <<"google-cloud-datastore-stubs", "sub", "client.pyi">>,
      <<"v1.x", "__init__.py">> }

IsPyi(name) == name \in {"client.pyi"}          \* name ends with ".pyi"
IsPy(name) == name \in {"__init__.py"}          \* name ends with ".py"
HasDot(name) == name \in {"v1.x"}               \* '.' in name, for directories

Versions == {"2.21.0", "two.twentyone"}
ValidVersion(v) == v \in {"2.21.0"}             \* v parses as a PEP 440 version

ReadmeText == "readme"

Empty == [f \in {} |-> 0]

-----------------------------------------------------------------------------
(* The descriptor *)

\* line 7: open("../README.md") is resolved against the working directory
ReadmeDirFromDescriptor == Front(DescriptorDir)
ReadmeDir == Front(cwd)

\* lines 11-14
package_data ==
    [k \in {"google-cloud-datastore-stubs", "google.cloud.datastore"} |->
        IF k = "google-cloud-datastore-stubs"
        THEN <<"py.typed", "**/*.pyi">>
        ELSE <<"py.typed", "*.pyi">>]

\* rel_path.replace(os.path.sep, '.'): the package name of a directory
RECURSIVE DottedName(_)
DottedName(d) ==
    IF Len(d) = 1 THEN d[1] ELSE DottedName(Front(d)) \o "." \o Last(d)

\* package.split('.') joined as a path: the directory of a package name
PackageDir(name) ==
    IF \E d \in PkgDirs : (\A i \in DOMAIN d : ~HasDot(d[i])) /\ DottedName(d) = name
    THEN CHOOSE d \in PkgDirs : (\A i \in DOMAIN d : ~HasDot(d[i])) /\ DottedName(d) = name
    ELSE <<name>>

\* os.path.isfile(os.path.join(path, '__init__.py'))
looks_like_package(t, d) == Append(d, "__init__.py") \in DOMAIN t

Children(root) == {d \in PkgDirs : Len(d) = Len(root) + 1 /\ IsPrefix(root, d)}

\* find_packages() with its defaults (where='.', exclude=(), include=('*',)):
\* the walk descends only into the directories it yields
RECURSIVE WalkNoAncestors(_, _)
WalkNoAncestors(t, root) ==
    UNION { (IF HasDot(Last(d)) \/ ~looks_like_package(t, d) THEN {} ELSE {d})
            \cup WalkNoAncestors(t, d) : d \in Children(root) }

RECURSIVE Walk(_, _)
Walk(t, root) ==
    UNION { IF HasDot(Last(d)) \/ ~looks_like_package(t, d)
            THEN {}
            ELSE {d} \cup Walk(t, d) : d \in Children(root) }

find_packages_any_init(t) == WalkNoAncestors(t, <<>>)
find_packages(t) == Walk(t, <<>>)

\* glob(os.path.join(src_dir, pattern), recursive=True), files only
Glob(t, src_dir, pattern) ==
    CASE pattern = "py.typed" ->
            {f \in DOMAIN t : f = Append(src_dir, "py.typed")}
      [] pattern = "*.pyi" ->
            {f \in DOMAIN t : Front(f) = src_dir /\ IsPyi(Last(f))}
      [] pattern = "**/*.pyi" ->
            {f \in DOMAIN t : IsPrefix(src_dir, Front(f)) /\ IsPyi(Last(f))}

\* build_py.find_data_files: the patterns of package_data[''] (none) and of
\* package_data[package], globbed under the package's directory
find_data_files(t, package) ==
    IF DottedName(package) \in DOMAIN package_data
    THEN UNION { Glob(t, package, pat) : pat \in Range(package_data[DottedName(package)]) }
    ELSE {}

\* build_py.find_package_modules: the *.py files of the package's directory
find_package_modules(t, package) ==
    {f \in DOMAIN t : Front(f) = package /\ IsPy(Last(f))}

\* build_py over every key of package_data, discovered or not
build_files_all_keys(t, pkgs) ==
    UNION { find_package_modules(t, p) : p \in pkgs }
    \cup UNION { find_data_files(t, PackageDir(k)) : k \in DOMAIN package_data }

\* build_py.run: build_package_data and build_modules, over self.packages
build_files(t, pkgs) ==
    UNION { find_package_modules(t, p) \cup find_data_files(t, p) : p \in pkgs }

\* copy_file into build_lib: the content is copied byte for byte
copy_file(t, f) == t[f]

build_py(t, pkgs) == [f \in build_files(t, pkgs) |-> copy_file(t, f)]

-----------------------------------------------------------------------------
(* The run *)

TreeOf(S, texts) == [f \in S |-> IF IsPyi(Last(f)) THEN texts[f] ELSE 0]

Init ==
    /\ cwd \in WorkDirs
    /\ readmeDirs \in SUBSET {Front(d) : d \in WorkDirs}
    /\ \E S \in SUBSET CandidateFiles :
         \E texts \in [{f \in CandidateFiles : IsPyi(Last(f))} -> 1..MaxText] :
            tree = TreeOf(S, texts)
    /\ version \in Versions
    /\ strictVersion \in BOOLEAN
    /\ pc = "start"
    /\ long_description = ""
    /\ packages = {}
    /\ fsOps = <<>>
    /\ error = ""
    /\ exitCode = -1
    /\ artifact = Empty
    /\ installed = Empty

\* line 7 with a missing README swallowed: the build goes on
ReadLongDescriptionIgnoringAbsence ==
    /\ pc = "start"
    /\ fsOps' = Append(fsOps, "open")
    /\ long_description' = IF ReadmeDir \in readmeDirs THEN ReadmeText ELSE ""
    /\ pc' = "find_packages"
    /\ UNCHANGED <<inputs, packages, error, exitCode, artifact, installed>>

\* line 7: long_description=open("../README.md").read()
ReadLongDescription ==
    /\ pc = "start"
    /\ fsOps' = Append(fsOps, "open")
    /\ IF ReadmeDir \in readmeDirs
       THEN /\ long_description' = ReadmeText
            /\ pc' = "find_packages"
            /\ UNCHANGED <<error, exitCode>>
       ELSE /\ error' = "FileNotFoundError"
            /\ exitCode' = 1
            /\ pc' = "failed"
            /\ UNCHANGED long_description
    /\ UNCHANGED <<inputs, packages, artifact, installed>>

\* line 10: packages=find_packages()
FindPackages ==
    /\ pc = "find_packages"
    /\ fsOps' = Append(fsOps, "walk")
    /\ packages' = find_packages(tree)
    /\ pc' = "setup"
    /\ UNCHANGED <<inputs, long_description, error, exitCode, artifact, installed>>

\* the Distribution accepts any version
SetupNoValidation ==
    /\ pc = "setup"
    /\ pc' = "build"
    /\ UNCHANGED <<inputs, long_description, packages, fsOps, error, exitCode,
                   artifact, installed>>

\* lines 3-30: setup(...) creates the Distribution from the evaluated
\* arguments; the version is checked there
Setup ==
    /\ pc = "setup"
    /\ IF ~ValidVersion(version) /\ strictVersion
       THEN /\ error' = "InvalidVersion"
            /\ exitCode' = 1
            /\ pc' = "failed"
       ELSE /\ pc' = "build"
            /\ UNCHANGED <<error, exitCode>>
    /\ UNCHANGED <<inputs, long_description, packages, fsOps, artifact, installed>>

\* the build command: build_py copies modules and package data
Build ==
    /\ pc = "build"
    /\ fsOps' = Append(fsOps, "copy")
    /\ artifact' = build_py(tree, packages)
    /\ exitCode' = 0
    /\ pc' = "done"
    /\ UNCHANGED <<inputs, long_description, packages, error, installed>>

\* the install command: install_lib copies the build directory
Install ==
    /\ pc = "done"
    /\ installed' = artifact
    /\ pc' = "installed"
    /\ UNCHANGED <<inputs, long_description, packages, fsOps, error, exitCode,
                   artifact>>

Next ==
    \/ ReadLongDescription
    \/ FindPackages
    \/ Setup
    \/ Build
    \/ Install

Spec == Init /\ [][Next]_vars

-----------------------------------------------------------------------------
(* Vocabulary of the claims *)

Terminal == pc \in {"failed", "done", "installed"}
Succeeded == pc \in {"done", "installed"}
Discovered == Len(fsOps) >= 2 /\ fsOps[2] = "walk"
ReadmeAbsent == Front(cwd) \notin readmeDirs
Keys == DOMAIN package_data
Matches(k, pat) == Glob(tree, PackageDir(k), pat)
AllPatternsMatch == \A k \in Keys : \A pat \in Range(package_data[k]) : Matches(k, pat) # {}
HasInit(d) == Append(d, "__init__.py") \in DOMAIN tree
InitChain(d) == \A i \in 1..Len(d) : HasInit(SubSeq(d, 1, i))
NoDots(d) == \A i \in 1..Len(d) : ~HasDot(d[i])
Under(d) == {f \in DOMAIN artifact : IsPrefix(d, f)}
StubsKey == <<"google-cloud-datastore-stubs">>
DatastoreKey == <<"google", "cloud", "datastore">>

\* the modules of the discovered packages and the files the patterns of
\* every package_data key match
DeclaredFiles ==
    UNION { find_package_modules(tree, p) : p \in packages }
    \cup UNION { UNION { Matches(k, pat) : pat \in Range(package_data[k]) } : k \in Keys }

\* C1: when ../README.md is absent the run never leaves the README read
\* except into the failed state, which has a non-zero exit code and the
\* FileNotFoundError, and no artifact or installed file ever exists.
C1_NoArtifactWithoutReadme ==
    ReadmeAbsent =>
        /\ pc \in {"start", "failed"}
        /\ DOMAIN artifact = {}
        /\ DOMAIN installed = {}
        /\ pc = "failed" => (exitCode # 0 /\ error = "FileNotFoundError")

C1_Witness == ReadmeAbsent /\ pc = "failed" /\ DOMAIN tree # {}

\* C2: every successful build implies that each declared package_data
\* pattern matched at least one file of the source tree.
C2_SuccessImpliesEveryPatternMatched == Succeeded => AllPatternsMatch

\* C3: on a complete, valid tree (README present, valid version, every
\* declared pattern matching) the build ends with exit code 0 and the
\* artifact holds exactly the declared files (the modules of the packages
\* and the files the package_data patterns match), each with its source
\* content.
C3_ValidTreeBuildsExactlyDeclared ==
    (Terminal /\ ~ReadmeAbsent /\ ValidVersion(version) /\ AllPatternsMatch) =>
        /\ Succeeded
        /\ exitCode = 0
        /\ DOMAIN artifact = DeclaredFiles
        /\ \A f \in DOMAIN artifact : artifact[f] = tree[f]

\* C4: after build and install, every file a declared package_data pattern
\* matches in the source tree is in the installed location with the same
\* content.
C4_RoundTrip ==
    pc = "installed" =>
        \A k \in Keys : \A pat \in Range(package_data[k]) : \A f \in Matches(k, pat) :
            f \in DOMAIN installed /\ installed[f] = tree[f]

\* C5: in the artifact of a successful build every declared namespace (each
\* package_data key and each discovered package) carries py.typed.
C5_EveryNamespaceTyped ==
    Succeeded =>
        \A ns \in {PackageDir(k) : k \in Keys} \cup packages :
            Append(ns, "py.typed") \in DOMAIN artifact

C7_AnyFailureEndsFailed ==
    (Terminal /\ (ReadmeAbsent \/ ~AllPatternsMatch \/ ~ValidVersion(version))) =>
        /\ pc = "failed"
        /\ exitCode # 0
        /\ DOMAIN artifact = {}

\* C8 (as claimed): a directory is a discovered package exactly when it and
\* every ancestor below the root of the walk contain an init-marker.
C8_InitMarkerOnly ==
    Discovered => \A d \in PkgDirs : d \in packages <=> InitChain(d)

\* C8 (amended): a directory is a discovered package exactly when it and
\* every ancestor below the root of the walk contain an init-marker and no
\* directory name on that path contains a dot; the packages the build copies
\* modules for are exactly this set.
C8_InitMarkerAndNoDot ==
    /\ Discovered => \A d \in PkgDirs : d \in packages <=> (InitChain(d) /\ NoDots(d))
    /\ Succeeded =>
          {Front(f) : f \in {g \in DOMAIN artifact : IsPy(Last(g))}}
              = {d \in PkgDirs : InitChain(d) /\ NoDots(d)}

C8_Witness ==
    /\ Succeeded
    /\ HasInit(<<"v1.x">>)
    /\ HasInit(DatastoreKey) /\ ~HasInit(<<"google", "cloud">>)
    /\ <<"google">> \in packages

\* C9 (as claimed): a package_data key that discovery does not return
\* contributes no file to the artifact; "google-cloud-datastore-stubs" is
\* never returned, and "google.cloud.datastore" is returned only when
\* google/, google/cloud/ and google/cloud/datastore/ all hold an init-marker.
C9_StubsKeyNeverDiscovered ==
    Succeeded =>
        /\ \A k \in Keys : PackageDir(k) \notin packages => Under(PackageDir(k)) = {}
        /\ StubsKey \notin packages
        /\ DatastoreKey \in packages <=> InitChain(DatastoreKey)

\* C9 (amended): a package_data key that discovery does not return
\* contributes no file to the artifact and raises no error: the build
\* completes whenever the README is present and the version is accepted.
\* "google-cloud-datastore-stubs" is returned exactly when that directory
\* holds an init-marker, "google.cloud.datastore" exactly when google/,
\* google/cloud/ and google/cloud/datastore/ all do.
C9_UndiscoveredKeyContributesNothing ==
    /\ Succeeded =>
          /\ \A k \in Keys : PackageDir(k) \notin packages => Under(PackageDir(k)) = {}
          /\ StubsKey \in packages <=> HasInit(StubsKey)
          /\ DatastoreKey \in packages <=> InitChain(DatastoreKey)
    /\ (Terminal /\ ~ReadmeAbsent /\ (ValidVersion(version) \/ ~strictVersion)) =>
          (Succeeded /\ exitCode = 0 /\ error = "")

C9_Witness ==
    /\ Succeeded
    /\ DatastoreKey \notin packages
    /\ \A pat \in Range(package_data["google.cloud.datastore"]) :
          Matches("google.cloud.datastore", pat) # {}
    /\ StubsKey \in packages
    /\ Under(StubsKey) # {}

\* C10: README.md is looked up in the parent of the working directory, not
\* beside the descriptor, as the first file-system access of the run: the run
\* fails with FileNotFoundError exactly when that parent holds no README.md,
\* and then nothing was discovered or bundled; a run whose working
\* directory's parent holds it and whose version is accepted succeeds.
C10_ReadmeRelativeToCwdFirst ==
    /\ fsOps # <<>> => fsOps[1] = "open"
    /\ pc # "start" => (error = "FileNotFoundError" <=> Front(cwd) \notin readmeDirs)
    /\ error = "FileNotFoundError" =>
          /\ pc = "failed" /\ exitCode # 0
          /\ fsOps = <<"open">>
          /\ packages = {} /\ DOMAIN artifact = {}
    /\ (Terminal /\ Front(cwd) \in readmeDirs /\ (ValidVersion(version) \/ ~strictVersion)) =>
          (Succeeded /\ exitCode = 0)

C10_Witness ==
    /\ cwd # DescriptorDir
    /\ Front(DescriptorDir) \in readmeDirs
    /\ Front(cwd) \notin readmeDirs
    /\ error = "FileNotFoundError"
    /\ HasInit(<<"google">>)

====
